---- MODULE Spec2Model ----
(***************************************************************************)
(* One render of the Streamlit page src/app.py: tab 1 (QAM METAR report    *)
(* with PDF export and satellite image) followed by tab 2 (BMKG forecast    *)
(* table, metrics, windrose, export).                                       *)
(*                                                                          *)
(* Text is modelled as a sequence of one-character strings.  The one        *)
(* non-ASCII character the program writes, the degree sign U+00B0, is the   *)
(* element "deg"; its UTF-8 encoding is the two bytes "C2" "B0".            *)
(* Times are integers (hours on one time axis).                             *)
(***************************************************************************)
EXTENDS Integers, Sequences, FiniteSets, TLC

(***************************************************************************)
(* Bounds of the model.                                                     *)
(***************************************************************************)
\* longest METAR text drawn from the token vocabulary, in tokens
MaxTokens == 2
\* most observations in one forecast entry
MaxObs == 2

(***************************************************************************)
(* Characters and generic text helpers.                                     *)
(***************************************************************************)
DIGITS == <<"0", "1", "2", "3", "4", "5", "6", "7", "8", "9">>

IsDigit(c) == \E k \in 1..10 : DIGITS[k] = c

\* Python str.strip(): the whitespace characters
WHITESPACE == {" ", "\n", "\t", "\r"}

RECURSIVE Concat(_)
\* "".join(parts): the concatenation of a sequence of texts, by halves
Concat(parts) ==
    IF parts = <<>> THEN <<>>
    ELSE IF Len(parts) = 1 THEN parts[1]
    ELSE LET half == Len(parts) \div 2
         IN  Concat(SubSeq(parts, 1, half)) \o Concat(SubSeq(parts, half + 1, Len(parts)))

RECURSIVE LStrip(_)
LStrip(s) ==
    IF s # <<>> /\ Head(s) \in WHITESPACE THEN LStrip(Tail(s)) ELSE s

RECURSIVE RStrip(_)
RStrip(s) ==
    IF s # <<>> /\ s[Len(s)] \in WHITESPACE
    THEN RStrip(SubSeq(s, 1, Len(s) - 1)) ELSE s

\* str.strip()
Strip(s) == RStrip(LStrip(s))

\* str.replace(old, new) for a one-character old: every occurrence, left to right
Replace(s, old, new) ==
    Concat([k \in 1..Len(s) |-> IF s[k] = old THEN new ELSE <<s[k]>>])

RECURSIVE IntToStr(_)
\* str(n) for n >= 0
IntToStr(n) ==
    IF n < 10 THEN <<DIGITS[n + 1]>>
    ELSE IntToStr(n \div 10) \o <<DIGITS[(n % 10) + 1]>>

\* str.encode(): UTF-8, one byte per ASCII character, two for the degree sign
Utf8(c) == IF c = "deg" THEN <<"C2", "B0">> ELSE <<c>>

Encode(s) == Concat([k \in 1..Len(s) |-> Utf8(s[k])])

(***************************************************************************)
(* The regular expressions of the METAR parsers.  A pattern is a sequence   *)
(* of elements: a literal character, a digit (\d), or an optional literal   *)
(* (c?); g is the capture group the element belongs to (0: none).           *)
(***************************************************************************)
Lit(c, g) == [kind |-> "lit", ch |-> c, g |-> g]
Dig(g) == [kind |-> "digit", ch |-> "", g |-> g]
Opt(c, g) == [kind |-> "opt", ch |-> c, g |-> g]

\* r'(\d{3})(\d{2})KT'
WIND_RE == <<Dig(1), Dig(1), Dig(1), Dig(2), Dig(2), Lit("K", 0), Lit("T", 0)>>

\* r' (\d{4}) '
VISIBILITY_RE == <<Lit(" ", 0), Dig(1), Dig(1), Dig(1), Dig(1), Lit(" ", 0)>>

\* r' (M?\d{2})/(M?\d{2})'
TEMP_DEW_RE ==
    <<Lit(" ", 0), Opt("M", 1), Dig(1), Dig(1), Lit("/", 0), Opt("M", 2), Dig(2), Dig(2)>>

\* r' Q(\d{4})'
QNH_RE == <<Lit(" ", 0), Lit("Q", 0), Dig(1), Dig(1), Dig(1), Dig(1)>>

NoMatch == [ok |-> FALSE, start |-> 0, tags |-> <<>>]

RECURSIVE MatchFrom(_, _, _, _)
\* The regex engine at one start position: elements k.. of pat against m from
\* position i.  Yields the capture-group tag of every character consumed, or
\* NoMatch.  An optional element is tried greedily, then skipped (backtracking).
MatchFrom(pat, k, m, i) ==
    IF k > Len(pat) THEN [ok |-> TRUE, start |-> i, tags |-> <<>>]
    ELSE
      LET e == pat[k]
          hit == i <= Len(m) /\ (IF e.kind = "digit" THEN IsDigit(m[i]) ELSE m[i] = e.ch)
          taken == IF hit THEN MatchFrom(pat, k + 1, m, i + 1) ELSE NoMatch
      IN  IF taken.ok
          THEN [ok |-> TRUE, start |-> i, tags |-> <<e.g>> \o taken.tags]
          ELSE IF e.kind = "opt" THEN MatchFrom(pat, k + 1, m, i) ELSE NoMatch

RECURSIVE SearchFrom(_, _, _)
\* re.search scans the start positions left to right; the first that matches wins
SearchFrom(pat, m, i) ==
    IF i > Len(m) + 1 THEN NoMatch
    ELSE LET x == MatchFrom(pat, 1, m, i)
         IN  IF x.ok THEN x ELSE SearchFrom(pat, m, i + 1)

RECURSIVE SearchLast(_, _, _)
\* a search in which the last matching start position wins
SearchLast(pat, m, i) ==
    IF i > Len(m) + 1 THEN NoMatch
    ELSE LET later == SearchLast(pat, m, i + 1)
         IN  IF later.ok THEN later ELSE MatchFrom(pat, 1, m, i)

re_search_last(pat, m) == SearchLast(pat, m, 1)

\* re.search(pat, m)
re_search(pat, m) == SearchFrom(pat, m, 1)

\* x.group(n): the characters of the match that belong to capture group n
group(m, x, n) ==
    LET idx == SelectSeq([j \in 1..Len(x.tags) |-> j], LAMBDA j : x.tags[j] = n)
    IN  [j \in 1..Len(idx) |-> m[x.start + idx[j] - 1]]

(***************************************************************************)
(* The METAR parsers of tab 1.                                              *)
(***************************************************************************)
\* the text every parser returns when its pattern does not match
DASH == <<"-">>

wind(m) ==
    LET x == re_search(WIND_RE, m)
    IN  IF x.ok
        THEN group(m, x, 1) \o <<"deg", " ", "/", " ">> \o group(m, x, 2) \o <<" ", "k", "t">>
        ELSE DASH

visibility(m) ==
    LET x == re_search(VISIBILITY_RE, m)
    IN  IF x.ok THEN group(m, x, 1) \o <<" ", "m">> ELSE DASH

temp_dew(m) ==
    LET x == re_search(TEMP_DEW_RE, m)
    IN  IF x.ok
        THEN group(m, x, 1) \o <<" ", "/", " ">> \o group(m, x, 2) \o <<" ", "deg", "C">>
        ELSE DASH

qnh(m) ==
    LET x == re_search(QNH_RE, m)
    IN  IF x.ok THEN group(m, x, 1) \o <<" ", "h", "P", "a">> ELSE DASH

(***************************************************************************)
(* The QAM report of tab 1 (qam_text) and its fixed texts.                  *)
(***************************************************************************)
QAM_TITLE ==
    <<"M", "E", "T", "E", "O", "R", "O", "L", "O", "G", "I", "C", "A", "L", " ", "R", "E", "P",
      "O", "R", "T", " ", "(", "Q", "A", "M", ")">>

QAM_DATE ==
    <<"D", "A", "T", "E", " ", "/", " ", "T", "I", "M", "E", " ", "(", "U", "T", "C", ")", " ",
      ":", " ">>

QAM_AERODROME ==
    <<"A", "E", "R", "O", "D", "R", "O", "M", "E", " ", " ", " ", " ", " ", " ", " ", " ", ":",
      " ", "W", "I", "B", "B">>

QAM_WIND ==
    <<"S", "U", "R", "F", "A", "C", "E", " ", "W", "I", "N", "D", " ", " ", " ", " ", " ", ":",
      " ">>

QAM_VISIBILITY ==
    <<"V", "I", "S", "I", "B", "I", "L", "I", "T", "Y", " ", " ", " ", " ", " ", " ", " ", ":",
      " ">>

QAM_TEMP ==
    <<"T", "E", "M", "P", " ", "/", " ", "D", "E", "W", "P", "O", "I", "N", "T", " ", " ", ":",
      " ">>

QAM_QNH ==
    <<"Q", "N", "H", " ", " ", " ", " ", " ", " ", " ", " ", " ", " ", " ", " ", " ", " ", ":",
      " ">>

QAM_RAW ==
    <<"R", "A", "W", " ", "M", "E", "T", "A", "R", ":">>

\* qam_text: the ten lines of the report, from the METAR text and the clock text
qam_lines(m, now) ==
    <<QAM_TITLE,
      QAM_DATE \o now,
      QAM_AERODROME,
      QAM_WIND \o wind(m),
      QAM_VISIBILITY \o visibility(m),
      QAM_TEMP \o temp_dew(m),
      QAM_QNH \o qnh(m),
      <<>>,
      QAM_RAW,
      m>>

(***************************************************************************)
(* generate_pdf.                                                            *)
(***************************************************************************)
\* content = "BT\n/F1 10 Tf\n72 800 Td\n"
PDF_BT ==
    <<"B", "T", "\n", "/", "F", "1", " ", "1", "0", " ", "T", "f", "\n", "7", "2", " ", "8",
      "0", "0", " ", "T", "d", "\n">>

\* the text that follows the escaped line: ") Tj\n0 -14 Td\n"
PDF_TJ ==
    <<")", " ", "T", "j", "\n", "0", " ", "-", "1", "4", " ", "T", "d", "\n">>

PDF_ET ==
    <<"E", "T">>

\* the bytes before the declared length
PDF_HEAD ==
    <<"%", "P", "D", "F", "-", "1", ".", "4", "\n", "1", " ", "0", " ", "o", "b", "j", "<",
      "<", " ", "/", "T", "y", "p", "e", " ", "/", "F", "o", "n", "t", " ", "/", "S", "u", "b",
      "t", "y", "p", "e", " ", "/", "T", "y", "p", "e", "1", " ", "/", "B", "a", "s", "e", "F",
      "o", "n", "t", " ", "/", "H", "e", "l", "v", "e", "t", "i", "c", "a", " ", ">", ">", "e",
      "n", "d", "o", "b", "j", "\n", "2", " ", "0", " ", "o", "b", "j", "<", "<", " ", "/",
      "L", "e", "n", "g", "t", "h", " ">>

PDF_STREAM ==
    <<" ", ">", ">", "s", "t", "r", "e", "a", "m", "\n">>

\* the bytes after the content stream
PDF_TAIL ==
    <<"\n", "e", "n", "d", "s", "t", "r", "e", "a", "m", " ", "e", "n", "d", "o", "b", "j",
      "\n", "3", " ", "0", " ", "o", "b", "j", "<", "<", " ", "/", "T", "y", "p", "e", " ",
      "/", "P", "a", "g", "e", " ", "/", "P", "a", "r", "e", "n", "t", " ", "4", " ", "0", " ",
      "R", " ", "/", "C", "o", "n", "t", "e", "n", "t", "s", " ", "2", " ", "0", " ", "R", " ",
      "/", "R", "e", "s", "o", "u", "r", "c", "e", "s", "<", "<", " ", "/", "F", "o", "n", "t",
      "<", "<", " ", "/", "F", "1", " ", "1", " ", "0", " ", "R", " ", ">", ">", " ", ">", ">",
      " ", ">", ">", "e", "n", "d", "o", "b", "j", "\n", "4", " ", "0", " ", "o", "b", "j",
      "<", "<", " ", "/", "T", "y", "p", "e", " ", "/", "P", "a", "g", "e", "s", " ", "/", "K",
      "i", "d", "s", " ", "[", "3", " ", "0", " ", "R", "]", " ", "/", "C", "o", "u", "n", "t",
      " ", "1", " ", "/", "M", "e", "d", "i", "a", "B", "o", "x", " ", "[", "0", " ", "0", " ",
      "5", "9", "5", " ", "8", "4", "2", "]", " ", ">", ">", "e", "n", "d", "o", "b", "j",
      "\n", "5", " ", "0", " ", "o", "b", "j", "<", "<", " ", "/", "T", "y", "p", "e", " ",
      "/", "C", "a", "t", "a", "l", "o", "g", " ", "/", "P", "a", "g", "e", "s", " ", "4", " ",
      "0", " ", "R", " ", ">", ">", "e", "n", "d", "o", "b", "j", "\n", "x", "r", "e", "f",
      "\n", "0", " ", "6", "\n", "0", "0", "0", "0", "0", "0", "0", "0", "0", "0", " ", "6",
      "5", "5", "3", "5", " ", "f", " ", "\n", "t", "r", "a", "i", "l", "e", "r", "<", "<",
      " ", "/", "S", "i", "z", "e", " ", "6", " ", "/", "R", "o", "o", "t", " ", "5", " ", "0",
      " ", "R", " ", ">", ">", "\n", "%", "%", "E", "O", "F">>

\* the three replacements with the backslash escaped last
EscapeParensFirst(l) ==
    Replace(Replace(Replace(l, "(", <<"\\", "(">>), ")", <<"\\", ")">>), "\\", <<"\\", "\\">>)

\* safe = l.replace("\\", "\\\\").replace("(", "\\(").replace(")", "\\)")
Escape(l) ==
    Replace(Replace(Replace(l, "\\", <<"\\", "\\">>), "(", <<"\\", "(">>), ")", <<"\\", ")">>)

\* the content stream: one "(safe) Tj\n0 -14 Td\n" per line between BT and ET
pdf_content(lines) ==
    PDF_BT \o Concat([k \in 1..Len(lines) |-> <<"(">> \o Escape(lines[k]) \o PDF_TJ]) \o PDF_ET

\* the bytes generate_pdf returns; the declared length is len(content), the
\* number of characters of the text, and the stream is content.encode()
generate_pdf(lines) ==
    LET content == pdf_content(lines)
    IN  PDF_HEAD \o Encode(IntToStr(Len(content))) \o PDF_STREAM
          \o Encode(content) \o PDF_TAIL

(***************************************************************************)
(* What the network and the clock can deliver to one render.                *)
(***************************************************************************)
\* strftime("%d %b %Y %H%M UTC") of two clock readings
CLOCK_A ==
    <<"2", "5", " ", "J", "a", "n", " ", "2", "0", "2", "5", " ", "1", "2", "0", "0", " ", "U",
      "T", "C">>

CLOCK_B ==
    <<"0", "3", " ", "N", "o", "v", " ", "2", "0", "2", "6", " ", "0", "0", "3", "0", " ", "U",
      "T", "C">>

\* the example lines of the specification
LINE_FULL ==
    <<"W", "I", "B", "B", " ", "2", "5", "1", "2", "0", "0", "Z", " ", "1", "8", "0", "1", "0",
      "K", "T", " ", "6", "0", "0", "0", " ", "R", "A", " ", "F", "E", "W", "0", "1", "8", " ",
      "2", "7", "/", "2", "4", " ", "Q", "1", "0", "0", "8">>

LINE_NOWIND ==
    <<"W", "I", "B", "B", " ", "2", "5", "1", "2", "0", "0", "Z", " ", "6", "0", "0", "0", " ",
      "2", "7", "/", "2", "4", " ", "Q", "1", "0", "0", "8">>

LINE_NEG ==
    <<"W", "I", "B", "B", " ", "2", "5", "1", "2", "0", "0", "Z", " ", "1", "8", "0", "1", "0",
      "K", "T", " ", "9", "9", "9", "9", " ", "M", "0", "2", "/", "M", "0", "5", " ", "Q", "1",
      "0", "2", "0">>

\* a response with surrounding whitespace, as the endpoint sends it
LINE_RAW ==
    <<"W", "I", "B", "B", " ", "2", "5", "1", "2", "0", "0", "Z", " ", "2", "7", "0", "0", "5",
      "K", "T", " ", "1", "8", "0", "1", "0", "K", "T", " ", "8", "0", "0", "0", " ", "(", "R",
      "M", "K", "\\", ")", " ", "3", "1", "/", "M", "0", "1", " ", "Q", "1", "0", "1", "1", "\n">>

\* a response of two lines
LINE_TWO ==
    <<"W", "I", "B", "B", " ", "2", "5", "1", "2", "0", "0", "Z", " ", "1", "8", "0", "1", "0",
      "K", "T", "\n", "W", "I", "B", "B", " ", "2", "5", "1", "1", "3", "0", "Z", " ", "2",
      "7", "0", "0", "5", "K", "T">>

TOK_STATION ==
    <<"W", "I", "B", "B">>

TOK_TIME ==
    <<"2", "5", "1", "2", "0", "0", "Z">>

TOK_WIND ==
    <<"1", "8", "0", "1", "0", "K", "T">>

TOK_WIND2 ==
    <<"2", "7", "0", "0", "5", "K", "T">>

TOK_LONGWIND ==
    <<"1", "2", "3", "4", "5", "6", "7", "K", "T">>

TOK_VIS ==
    <<"6", "0", "0", "0">>

TOK_TEMP ==
    <<"2", "7", "/", "2", "4">>

TOK_TEMPNEG ==
    <<"M", "0", "2", "/", "0", "5">>

TOK_QNH ==
    <<"Q", "1", "0", "0", "8">>

TOK_REMARK ==
    <<"(", "A", "\\", ")">>

\* the vocabulary the bounded METAR texts are built from
TOKENS ==
    {TOK_STATION, TOK_TIME, TOK_WIND, TOK_WIND2, TOK_LONGWIND, TOK_VIS, TOK_TEMP,
     TOK_TEMPNEG, TOK_QNH, TOK_REMARK}

RECURSIVE TokenSeqs(_)
TokenSeqs(n) ==
    IF n = 0 THEN {<<>>}
    ELSE LET shorter == TokenSeqs(n - 1)
         IN  shorter \cup {Append(s, t) : s \in {x \in shorter : Len(x) = n - 1}, t \in TOKENS}

RECURSIVE JoinSpace(_)
JoinSpace(ts) ==
    IF ts = <<>> THEN <<>>
    ELSE IF Len(ts) = 1 THEN ts[1]
    ELSE ts[1] \o <<" ">> \o JoinSpace(Tail(ts))

\* the response bodies of the METAR endpoint: the example lines and every text of
\* at most MaxTokens tokens
MetarTexts ==
    {LINE_FULL, LINE_NOWIND, LINE_NEG, LINE_RAW, LINE_TWO}
      \cup {JoinSpace(ts) : ts \in TokenSeqs(MaxTokens)}

FewMetarTexts == {LINE_FULL}

\* requests: a timeout raises in requests.get, a non-2xx status in raise_for_status
FAILURES == {"timeout", "http_error"}

MetarResponses(texts) ==
    {[status |-> "ok", text |-> t] : t \in texts}
      \cup {[status |-> f, text |-> <<>>] : f \in FAILURES}

ImageResponses == {"ok"} \cup FAILURES

CLOCKS == {CLOCK_A, CLOCK_B}

\* lokasi.kotkab and lokasi.adm2 of the sample locations
KOTKAB ==
    <<"P", "e", "k", "a", "n", "b", "a", "r", "u">>

ADM2 ==
    <<"1", "4", ".", "7", "1">>

\* f"Location {len(mapping)+1}" up to the number
LOCATION ==
    <<"L", "o", "c", "a", "t", "i", "o", "n", " ">>

(***************************************************************************)
(* Tab 2: the forecast payload.  Times are whole hours; wind directions are *)
(* in hundredths of a degree and speeds in m/s, so that the bin edges       *)
(* 11.25, 22.5, ... and the factor 1.94384 (in units of 1e-5) are integers. *)
(* Numeric inputs are non-negative; the negative numbers are the markers    *)
(* below.                                                                   *)
(***************************************************************************)
\* a key the observation does not have (dict.get gives None)
NONE == -1
\* a value the parser rejects: pd.to_datetime raises, pd.to_numeric coerces
BAD == -2
\* pd.NaT, also what a None becomes in a datetime column
NaT == -3
\* NaN in a numeric or categorical column
NaN == -4

\* MS_TO_KT = 1.94384, in units of 1e-5
MS_TO_KT == 194384

\* step=pd.Timedelta(hours=3)
SLIDER_STEP == 3

Obs(u, l, w, d) == [utc_datetime |-> u, local_datetime |-> l, ws |-> w, wd_deg |-> d]

\* the observations the bounded payloads are built from
OBSERVATIONS ==
    {Obs(0, 0, 3, 0),          \* wind from north
     Obs(3, 3, 3, 35000),      \* wind from 350 degrees
     Obs(7, 7, 3, 18000),
     Obs(3, 7, 60, 36000),     \* 116 kt, direction 360
     Obs(NONE, 3, 3, 1125),    \* no utc_datetime key
     Obs(BAD, 0, 3, 2250),     \* utc_datetime unparseable
     Obs(0, BAD, NONE, NONE),  \* local_datetime unparseable, no wind keys
     Obs(7, 0, BAD, 34875)}    \* ws not a number

RECURSIVE ObsSeqs(_)
ObsSeqs(n) ==
    IF n = 0 THEN {<<>>}
    ELSE LET shorter == ObsSeqs(n - 1)
         IN  shorter \cup
               {Append(s, o) : s \in {x \in shorter : Len(x) = n - 1}, o \in OBSERVATIONS}

\* entry["cuaca"]: a list of groups of observations; the observations of a
\* sequence either in one group or one group each
Cuacas ==
    {<<>>} \cup {<<s>> : s \in ObsSeqs(MaxObs) \ {<<>>}}
           \cup {[k \in 1..Len(s) |-> <<s[k]>>] : s \in ObsSeqs(MaxObs) \ {<<>>}}

Entry(k, a, c) == [kotkab |-> k, adm2 |-> a, cuaca |-> c]

Entries == {Entry(KOTKAB, ADM2, c) : c \in Cuacas}

FewEntries ==
    {Entry(KOTKAB, ADM2, <<<<Obs(0, 0, 3, 0), Obs(3, 3, 3, 9000)>>>>),
     Entry(<<>>, ADM2, <<<<Obs(0, 0, 3, 0)>>, <<Obs(7, 7, 3, 9000)>>>>),
     Entry(<<>>, <<>>, <<<<Obs(3, 3, 3, 27000), Obs(0, 0, 3, 9000)>>>>)}

\* resp.json()
ForecastJsons ==
    {[data |-> <<>>]} \cup {[data |-> <<e>>] : e \in Entries}
                      \cup {[data |-> <<e1, e2>>] : e1 \in FewEntries, e2 \in FewEntries}

FewForecastJsons == {[data |-> <<e>>] : e \in FewEntries}

ForecastResponses(jsons) ==
    {[status |-> "ok", json |-> j] : j \in jsons}
      \cup {[status |-> f, json |-> [data |-> <<>>]] : f \in FAILURES}

\* st.cache_data(ttl=300): nothing memoized, or the payload of an earlier render
NoCache == [hit |-> FALSE, json |-> [data |-> <<>>]]
Cached(j) == [hit |-> TRUE, json |-> j]

(***************************************************************************)
(* Tab 2: the table.                                                        *)
(***************************************************************************)
\* label = lok.get("kotkab") or lok.get("adm2") or f"Location {len(mapping)+1}"
Label(e, mapping) ==
    IF e.kotkab # <<>> THEN e.kotkab
    ELSE IF e.adm2 # <<>> THEN e.adm2
    ELSE LOCATION \o IntToStr(Cardinality(DOMAIN mapping) + 1)

RECURSIVE BuildMapping(_, _)
\* for e in entries: mapping[label] = {"entry": e}; a repeated label overwrites
BuildMapping(entries, mapping) ==
    IF entries = <<>> THEN mapping
    ELSE LET e == Head(entries)
             label == Label(e, mapping)
         IN  BuildMapping(Tail(entries),
                          [l \in DOMAIN mapping \cup {label} |->
                              IF l = label THEN e ELSE mapping[l]])

\* lines 151-156 (timestamps) and 158-160 (pd.to_numeric, errors="coerce") for
\* one observation; ws_kt is filled in by line 203
Row(o) ==
    LET parsed == o.utc_datetime # BAD /\ o.local_datetime # BAD
        when(t) == IF parsed /\ t # NONE THEN t ELSE NaT
        number(v) == IF v \in {NONE, BAD} THEN NaN ELSE v
    IN  [utc_datetime_dt |-> when(o.utc_datetime),
         local_datetime_dt |-> when(o.local_datetime),
         ws |-> number(o.ws),
         wd_deg |-> number(o.wd_deg),
         ws_kt |-> NaN]

\* flatten_cuaca_entry: a frame has the columns that some row has a key for
flatten_cuaca_entry(entry) ==
    LET obs == Concat(entry.cuaca)
    IN  [columns |-> (IF obs = <<>> THEN {} ELSE {"utc_datetime_dt", "local_datetime_dt"})
                       \cup (IF \E k \in 1..Len(obs) : obs[k].ws # NONE
                             THEN {"ws"} ELSE {})
                       \cup (IF \E k \in 1..Len(obs) : obs[k].wd_deg # NONE
                             THEN {"wd_deg"} ELSE {}),
         rows |-> [k \in 1..Len(obs) |-> Row(obs[k])]]

\* df["ws_kt"] = df["ws"] * MS_TO_KT
WithKnots(rows) ==
    [k \in 1..Len(rows) |->
        [rows[k] EXCEPT !.ws_kt = IF rows[k].ws = NaN THEN NaN ELSE rows[k].ws * MS_TO_KT]]

RECURSIVE InsertByUtc(_, _)
\* r after every row of the sorted rows whose key is not larger
InsertByUtc(sorted, r) ==
    IF sorted = <<>> THEN <<r>>
    ELSE IF Head(sorted).utc_datetime_dt <= r.utc_datetime_dt
         THEN <<Head(sorted)>> \o InsertByUtc(Tail(sorted), r)
         ELSE <<r>> \o sorted

RECURSIVE SortStable(_)
SortStable(rows) ==
    IF rows = <<>> THEN <<>>
    ELSE InsertByUtc(SortStable(SubSeq(rows, 1, Len(rows) - 1)), rows[Len(rows)])

\* df.sort_values("utc_datetime_dt"): ascending, NaT rows last in their input
\* order; the sort of so few rows keeps equal keys in input order
sort_values(rows) ==
    SortStable(SelectSeq(rows, LAMBDA r : r.utc_datetime_dt # NaT))
      \o SelectSeq(rows, LAMBDA r : r.utc_datetime_dt = NaT)

\* df["local_datetime_dt"].dropna()
LocalTimes(rows) ==
    {rows[k].local_datetime_dt : k \in 1..Len(rows)} \ {NaT}

Min(S) == CHOOSE x \in S : \A y \in S : x <= y
Max(S) == CHOOSE x \in S : \A y \in S : x >= y

\* the positions of the slider: steps of 3 hours from its minimum
SliderGrid(lo, hi) == {t \in lo..hi : (t - lo) % SLIDER_STEP = 0}

\* the pairs the range slider can return: its default (min, max), or two
\* positions a <= b of the grid
SliderValues(lo, hi) ==
    {<<lo, hi>>} \cup {v \in SliderGrid(lo, hi) \X SliderGrid(lo, hi) : v[1] <= v[2]}

\* df.loc[mask]: a comparison with NaT is False
Select(rows, a, b) ==
    SelectSeq(rows, LAMBDA r : r.local_datetime_dt # NaT
                               /\ r.local_datetime_dt >= a /\ r.local_datetime_dt <= b)

(***************************************************************************)
(* Tab 2: the windrose.                                                     *)
(***************************************************************************)
\* np.arange(start, stop, step): start + k*step for every k with a value < stop
arange(start, stop, step) ==
    [k \in 1..((stop - start + step - 1) \div step) |-> start + (k - 1) * step]

\* bins_dir = np.arange(-11.25, 360, 22.5), in hundredths of a degree
bins_dir == arange(-1125, 36000, 2250)

labels_dir ==
    <<"N", "NNE", "NE", "ENE", "E", "ESE", "SE", "SSE",
      "S", "SSW", "SW", "WSW", "W", "WNW", "NW", "NNW">>

\* speed_bins = [0,5,10,20,30,50,100] kt, in units of 1e-5 kt
speed_bins == <<0, 500000, 1000000, 2000000, 3000000, 5000000, 10000000>>

speed_labels == <<"<5", "5-10", "10-20", "20-30", "30-50", ">50">>

\* pd.cut(v, bins, include_lowest=True): the number of the interval
\* (bins[k], bins[k+1]] that holds v, the first one closed on the left too;
\* NaN for a value outside every interval
cut(v, bins) ==
    IF v = NaN THEN NaN
    ELSE LET ks == {k \in 1..(Len(bins) - 1) :
                      \/ bins[k] < v /\ v <= bins[k + 1]
                      \/ k = 1 /\ v = bins[1]}
         IN  IF ks = {} THEN NaN ELSE CHOOSE k \in ks : TRUE

\* lines 244-251: the rows with a direction and a speed, each with its sector
\* and its speed class
windrose_rows(rows) ==
    LET kept == SelectSeq(rows, LAMBDA r : r.wd_deg # NaN /\ r.ws_kt # NaN)
    IN  [k \in 1..Len(kept) |->
            [wd_deg |-> kept[k].wd_deg,
             ws_kt |-> kept[k].ws_kt,
             dir_sector |-> cut(kept[k].wd_deg % 36000, bins_dir),
             speed_class |-> cut(kept[k].ws_kt, speed_bins)]]

\* df_wr.groupby(["dir_sector","speed_class"]).size(): a row whose sector or
\* class is NaN belongs to no group
groupby_size(wr) ==
    [s \in 1..Len(labels_dir), c \in 1..Len(speed_labels) |->
        Cardinality({k \in 1..Len(wr) : wr[k].dir_sector = s /\ wr[k].speed_class = c})]

(***************************************************************************)
(* The render: the script from its first fetch to its last statement.       *)
(***************************************************************************)
VARIABLES
    pc,             \* the statement the script is at
    netMetar,       \* what the METAR endpoint answers in this render
    netImage,       \* what the satellite image host answers
    netForecast,    \* what the forecast API answers
    cache,          \* the memoized result of fetch_forecast(adm1)
    clock,          \* the formatted reading of datetime.now
    metar,          \* metar
    qam_text,       \* qam_text
    pdf,            \* the bytes handed to the download button
    shown,          \* the warnings and errors on the page
    exception,      \* the statement whose exception ended the script, "none" if none
    attempts,       \* requests sent in this render, per fetch
    raw,            \* raw
    mapping,        \* mapping: label -> entry
    selected_entry, \* selected_entry
    df,             \* df: its columns and its rows
    start_dt,       \* the pair the time-range slider returned
    df_sel,         \* the rows of df_sel
    now_row,        \* now = df_sel.iloc[0]
    df_wr,          \* the rows of df_wr
    freq,           \* the counts of freq
    csv             \* the rows written by to_csv and to_json

tab1 == <<metar, qam_text, pdf>>
net == <<netMetar, netImage, netForecast, cache, clock>>
tab2 == <<raw, mapping, selected_entry, df, start_dt, df_sel, now_row, df_wr, freq, csv>>
vars == <<pc, net, tab1, shown, exception, attempts, tab2>>

FETCHES == {"metar", "image", "forecast"}

NoEntry == Entry(<<>>, <<>>, <<>>)
NoFrame == [columns |-> {}, rows |-> <<>>]
NoRow == Row(Obs(NONE, NONE, NONE, NONE))

\* the script's variables before its first statement
Start ==
    /\ pc = "fetch_metar"
    /\ metar = <<>>
    /\ qam_text = <<>>
    /\ pdf = <<>>
    /\ shown = {}
    /\ exception = "none"
    /\ attempts = [f \in FETCHES |-> 0]
    /\ raw = [data |-> <<>>]
    /\ mapping = <<>>
    /\ selected_entry = NoEntry
    /\ df = NoFrame
    /\ start_dt = <<NaT, NaT>>
    /\ df_sel = <<>>
    /\ now_row = NoRow
    /\ df_wr = <<>>
    /\ freq = groupby_size(<<>>)
    /\ csv = <<>>

\* a render whose METAR answer ranges over the bounded texts
InitMetar ==
    /\ netMetar \in MetarResponses(MetarTexts)
    /\ netImage = "ok"
    /\ clock = CLOCK_A
    /\ netForecast \in ForecastResponses({})
    /\ cache = NoCache

\* a render whose forecast answer ranges over the bounded payloads
InitForecast ==
    /\ netMetar \in MetarResponses(FewMetarTexts)
    /\ netImage = "ok"
    /\ clock = CLOCK_A
    /\ netForecast \in ForecastResponses(ForecastJsons)
    /\ cache = NoCache

\* a render within 300 s of one that fetched the forecast, or after it
InitCached ==
    /\ netMetar \in MetarResponses(FewMetarTexts)
    /\ netImage \in ImageResponses
    /\ clock \in CLOCKS
    /\ netForecast \in ForecastResponses(FewForecastJsons)
    /\ cache \in {NoCache} \cup {Cached(j) : j \in FewForecastJsons}

Init == Start /\ (InitMetar \/ InitForecast \/ InitCached)

\* line 68: metar = fetch_metar(), outside any try
FetchMetar ==
    /\ pc = "fetch_metar"
    /\ attempts' = [attempts EXCEPT !["metar"] = @ + 1]
    /\ IF netMetar.status = "ok"
       THEN /\ metar' = Strip(netMetar.text)
            /\ pc' = "qam"
            /\ UNCHANGED exception
       ELSE /\ exception' = "fetch_metar"
            /\ pc' = "aborted"
            /\ UNCHANGED metar
    /\ UNCHANGED <<net, qam_text, pdf, shown, tab2>>

\* lines 69-82
BuildQam ==
    /\ pc = "qam"
    /\ qam_text' = qam_lines(metar, clock)
    /\ pc' = "pdf"
    /\ UNCHANGED <<net, metar, pdf, shown, exception, attempts, tab2>>

\* lines 106-107
DownloadPdf ==
    /\ pc = "pdf"
    /\ pdf' = generate_pdf(qam_text)
    /\ pc' = "satellite"
    /\ UNCHANGED <<net, metar, qam_text, shown, exception, attempts, tab2>>

\* lines 112-117: the failure is caught and a warning shown
FetchSatellite ==
    /\ pc = "satellite"
    /\ attempts' = [attempts EXCEPT !["image"] = @ + 1]
    /\ shown' = IF netImage = "ok" THEN shown ELSE shown \cup {"satellite_unavailable"}
    /\ pc' = "fetch_forecast"
    /\ UNCHANGED <<net, tab1, exception, tab2>>

\* lines 177-182: a memoized payload is returned without a request; a failure
\* is caught, shown by st.error, and st.stop ends the render
FetchForecast ==
    /\ pc = "fetch_forecast"
    /\ IF cache.hit
       THEN /\ raw' = cache.json
            /\ pc' = "entries"
            /\ UNCHANGED <<attempts, shown, cache>>
       ELSE /\ attempts' = [attempts EXCEPT !["forecast"] = @ + 1]
            /\ IF netForecast.status = "ok"
               THEN /\ raw' = netForecast.json
                    /\ cache' = Cached(netForecast.json)
                    /\ pc' = "entries"
                    /\ UNCHANGED shown
               ELSE /\ shown' = shown \cup {"fetch_failed"}
                    /\ pc' = "stopped"
                    /\ UNCHANGED <<raw, cache>>
    /\ UNCHANGED <<netMetar, netImage, netForecast, clock, tab1, exception>>
    /\ UNCHANGED <<mapping, selected_entry, df, start_dt, df_sel, now_row, df_wr, freq, csv>>

\* lines 184-201: no entries is a warning and st.stop; otherwise the user
\* picks one of the labels
SelectLocation ==
    /\ pc = "entries"
    /\ IF raw.data = <<>>
       THEN /\ shown' = shown \cup {"no_forecast_data"}
            /\ pc' = "stopped"
            /\ UNCHANGED <<mapping, selected_entry>>
       ELSE /\ mapping' = BuildMapping(raw.data, <<>>)
            /\ \E loc_choice \in DOMAIN mapping' : selected_entry' = mapping'[loc_choice]
            /\ pc' = "table"
            /\ UNCHANGED shown
    /\ UNCHANGED <<net, tab1, exception, attempts>>
    /\ UNCHANGED <<raw, df, start_dt, df_sel, now_row, df_wr, freq, csv>>

\* lines 202-204: df["ws"] raises KeyError when no observation has the key
AssembleTable ==
    /\ pc = "table"
    /\ LET frame == flatten_cuaca_entry(selected_entry)
       IN  IF "ws" \in frame.columns
           THEN /\ df' = [columns |-> frame.columns \cup {"ws_kt"},
                          rows |-> sort_values(WithKnots(frame.rows))]
                /\ pc' = "time_range"
                /\ UNCHANGED exception
           ELSE /\ df' = frame
                /\ exception' = "ws_kt"
                /\ pc' = "aborted"
    /\ UNCHANGED <<net, tab1, shown, attempts>>
    /\ UNCHANGED <<raw, mapping, selected_entry, start_dt, df_sel, now_row, df_wr, freq, csv>>

\* lines 206-213.  With no parsed local time min() and max() are NaT: the
\* slider raises on them, or takes them and the mask then keeps no row.
\* Otherwise the user's pair selects the rows (for min = max the one pair
\* (min, min)).
TimeRange ==
    /\ pc = "time_range"
    /\ LET times == LocalTimes(df.rows)
       IN  \/ /\ times = {}
              /\ exception' = "slider"
              /\ pc' = "aborted"
              /\ UNCHANGED <<start_dt, df_sel>>
           \/ /\ times = {}
              /\ start_dt' = <<NaT, NaT>>
              /\ df_sel' = <<>>
              /\ pc' = "metrics"
              /\ UNCHANGED exception
           \/ /\ times # {}
              /\ \E v \in SliderValues(Min(times), Max(times)) :
                    /\ start_dt' = v
                    /\ df_sel' = Select(df.rows, v[1], v[2])
              /\ pc' = "metrics"
              /\ UNCHANGED exception
    /\ UNCHANGED <<net, tab1, shown, attempts>>
    /\ UNCHANGED <<raw, mapping, selected_entry, df, now_row, df_wr, freq, csv>>

\* lines 218-223: df_sel.iloc[0] raises IndexError on an empty selection
Metrics ==
    /\ pc = "metrics"
    /\ IF df_sel = <<>>
       THEN /\ exception' = "iloc"
            /\ pc' = "aborted"
            /\ UNCHANGED now_row
       ELSE /\ now_row' = df_sel[1]
            /\ pc' = "windrose"
            /\ UNCHANGED exception
    /\ UNCHANGED <<net, tab1, shown, attempts>>
    /\ UNCHANGED <<raw, mapping, selected_entry, df, start_dt, df_sel, df_wr, freq, csv>>

\* lines 230-266: the trend charts read df_sel; the windrose is built when
\* df_sel has a wd_deg column and a row with direction and speed
Windrose ==
    /\ pc = "windrose"
    /\ LET wr == windrose_rows(df_sel)
       IN  IF "wd_deg" \in df.columns /\ wr # <<>>
           THEN /\ df_wr' = wr
                /\ freq' = groupby_size(wr)
           ELSE UNCHANGED <<df_wr, freq>>
    /\ pc' = "export"
    /\ UNCHANGED <<net, tab1, shown, exception, attempts>>
    /\ UNCHANGED <<raw, mapping, selected_entry, df, start_dt, df_sel, now_row, csv>>

\* lines 269-302: map and table show what is there; the export writes df_sel
Export ==
    /\ pc = "export"
    /\ csv' = df_sel
    /\ pc' = "done"
    /\ UNCHANGED <<net, tab1, shown, exception, attempts>>
    /\ UNCHANGED <<raw, mapping, selected_entry, df, start_dt, df_sel, now_row, df_wr, freq>>

Next ==
    \/ FetchMetar
    \/ BuildQam
    \/ DownloadPdf
    \/ FetchSatellite
    \/ FetchForecast
    \/ SelectLocation
    \/ AssembleTable
    \/ TimeRange
    \/ Metrics
    \/ Windrose
    \/ Export

Spec == Init /\ [][Next]_vars

(***************************************************************************)
(* Helpers of the properties: how a reader of the outputs reads them.       *)
(***************************************************************************)
\* s occurs in t at position i
OccursAt(s, t, i) ==
    /\ i >= 1
    /\ i + Len(s) - 1 <= Len(t)
    /\ \A j \in 1..Len(s) : t[i + j - 1] = s[j]

Occurrences(s, t) == {i \in 1..Len(t) : OccursAt(s, t, i)}

\* the value of a digit
DigitValue(c) == (CHOOSE k \in 1..10 : DIGITS[k] = c) - 1

RECURSIVE Number(_)
\* the number a non-empty text of digits denotes
Number(s) ==
    IF Len(s) = 1 THEN DigitValue(s[1])
    ELSE 10 * Number(SubSeq(s, 1, Len(s) - 1)) + DigitValue(s[Len(s)])

AllDigits(s) == s # <<>> /\ \A k \in 1..Len(s) : IsDigit(s[k])

\* a text read as an integer: the set of the one integer it denotes (digits,
\* with an optional minus sign), empty for a text that denotes none
ReadInt(s) ==
    IF AllDigits(s) THEN {Number(s)}
    ELSE IF s # <<>> /\ s[1] = "-" /\ AllDigits(Tail(s)) THEN {0 - Number(Tail(s))}
    ELSE {}

\* the script has just built the report (lines 71-82); metar and qam_text
\* do not change afterwards
ReportBuilt == pc = "pdf"

\* generate_pdf has just returned (line 106); pdf does not change afterwards
PdfGenerated == pc = "satellite"

\* the part of a report line after its 19-character caption
Field(k) == SubSeq(qam_text[k], Len(QAM_WIND) + 1, Len(qam_text[k]))

(***************************************************************************)
(* C1.  A failure of any of the three fetches is caught where the fetch is  *)
(* called and ends in a displayed message; none leaves the render as an     *)
(* uncaught exception, and no fetch is attempted twice in one render.       *)
(* The METAR fetch of line 68 stands outside any try: this fails.           *)
(***************************************************************************)
FetchFailed(f) ==
    /\ attempts[f] >= 1
    /\ CASE f = "metar" -> netMetar.status # "ok"
         [] f = "image" -> netImage # "ok"
         [] f = "forecast" -> netForecast.status # "ok"

FailureShown(f) ==
    CASE f = "metar" -> "metar_unavailable" \in shown
      [] f = "image" -> "satellite_unavailable" \in shown
      [] f = "forecast" -> "fetch_failed" \in shown

C1_FetchFailuresCaught ==
    \A f \in FETCHES :
        /\ attempts[f] <= 1
        /\ FetchFailed(f) => FailureShown(f) /\ exception # "fetch_metar"

(***************************************************************************)
(* C2.  For a line with no time group DDHHMMZ the extractor returns the one *)
(* "no observation" result instead of field values: every field of the      *)
(* report is the unset text.  The parsers never look for a time group: this *)
(* fails.                                                                   *)
(***************************************************************************)
\* r'\d{6}Z'
TIME_GROUP == <<Dig(0), Dig(0), Dig(0), Dig(0), Dig(0), Dig(0), Lit("Z", 0)>>

HasTimeGroup(m) == \E i \in 1..Len(m) : MatchFrom(TIME_GROUP, 1, m, i).ok

C2_NoTimeGroupNoFields ==
    (ReportBuilt /\ ~HasTimeGroup(metar)) =>
        \A k \in 4..7 : Field(k) = DASH

(***************************************************************************)
(* C3.  For a line with a wind group DDDSSKT the report gives as direction  *)
(* the first three digits of the leftmost such group and as speed its next  *)
(* two digits, with the integer values of those digits.                     *)
(***************************************************************************)
\* the positions where a group DDDSSKT starts
WindGroups(m) ==
    {i \in 1..Len(m) :
        /\ i + 6 <= Len(m)
        /\ \A j \in 0..4 : IsDigit(m[i + j])
        /\ m[i + 5] = "K"
        /\ m[i + 6] = "T"}

C3_WindFirstGroup ==
    (ReportBuilt /\ WindGroups(metar) # {}) =>
        LET i == Min(WindGroups(metar))
            out == Field(4)
        IN  /\ Len(out) = 12
            /\ SubSeq(out, 1, 3) = SubSeq(metar, i, i + 2)
            /\ SubSeq(out, 4, 7) = <<"deg", " ", "/", " ">>
            /\ SubSeq(out, 8, 9) = SubSeq(metar, i + 3, i + 4)
            /\ SubSeq(out, 10, 12) = <<" ", "k", "t">>
            /\ ReadInt(SubSeq(out, 1, 3))
                 = {100 * DigitValue(metar[i]) + 10 * DigitValue(metar[i + 1])
                      + DigitValue(metar[i + 2])}
            /\ ReadInt(SubSeq(out, 8, 9))
                 = {10 * DigitValue(metar[i + 3]) + DigitValue(metar[i + 4])}

\* a report from a line with several groups, the leftmost inside a longer
\* run of digits or followed by another group
C3_Witness ==
    /\ ReportBuilt
    /\ Cardinality(WindGroups(metar)) >= 2
    /\ Min(WindGroups(metar)) > 1
    /\ ReadInt(SubSeq(Field(4), 1, 3)) = {345}

(***************************************************************************)
(* C4.  For a temperature/dew-point group M?DD/M?DD the report gives each   *)
(* of the two values as an integer: minus the digits' value with the marker *)
(* M, the digits' value without it.  temp_dew copies the group's text,      *)
(* marker included, so a value with a marker is no integer: this fails.     *)
(***************************************************************************)
\* the integer a value M?DD of the group stands for
SignedValue(g) == IF Head(g) = "M" THEN 0 - Number(Tail(g)) ELSE Number(g)

\* the two values of the report's temperature field "<a> / <b> degC"
TempShown(out) ==
    LET slash == Min(Occurrences(<<" ", "/", " ">>, out))
    IN  <<SubSeq(out, 1, slash - 1), SubSeq(out, slash + 3, Len(out) - 3)>>

C4_SignedTemperatures ==
    (ReportBuilt /\ re_search(TEMP_DEW_RE, metar).ok) =>
        LET x == re_search(TEMP_DEW_RE, metar)
            shownValues == TempShown(Field(6))
        IN  /\ ReadInt(shownValues[1]) = {SignedValue(group(metar, x, 1))}
            /\ ReadInt(shownValues[2]) = {SignedValue(group(metar, x, 2))}

(***************************************************************************)
(* C5.  The line WIBB 251200Z 18010KT 6000 RA FEW018 27/24 Q1008 yields     *)
(* wind 180 at 10, visibility 6000, the rain flag, temperature 27, dew      *)
(* point 24 and pressure 1008; without its wind group the wind is unset and *)
(* the rest unchanged.  The extractor has no field for weather phenomena:   *)
(* this fails on the rain flag.                                             *)
(***************************************************************************)
\* the fields of the report that the parsers fill, by parser
Extracted ==
    [wind |-> Field(4), visibility |-> Field(5), temp_dew |-> Field(6), qnh |-> Field(7)]

C5_Examples ==
    /\ (ReportBuilt /\ metar = LINE_FULL) =>
          /\ ReadInt(SubSeq(Extracted.wind, 1, 3)) = {180}
          /\ ReadInt(SubSeq(Extracted.wind, 8, 9)) = {10}
          /\ ReadInt(SubSeq(Extracted.visibility, 1, 4)) = {6000}
          /\ ReadInt(TempShown(Extracted.temp_dew)[1]) = {27}
          /\ ReadInt(TempShown(Extracted.temp_dew)[2]) = {24}
          /\ ReadInt(SubSeq(Extracted.qnh, 1, 4)) = {1008}
          /\ "rain" \in DOMAIN Extracted
    /\ (ReportBuilt /\ metar = LINE_NOWIND) =>
          /\ Extracted.wind = DASH
          /\ ReadInt(SubSeq(Extracted.visibility, 1, 4)) = {6000}
          /\ ReadInt(TempShown(Extracted.temp_dew)[1]) = {27}
          /\ ReadInt(TempShown(Extracted.temp_dew)[2]) = {24}
          /\ ReadInt(SubSeq(Extracted.qnh, 1, 4)) = {1008}

(***************************************************************************)
(* C6.  With no valid rows (an entry without observations, or a time range  *)
(* that keeps no row) the table assembly ends in no error: the table is     *)
(* empty and the render completes.  df["ws"] raises on a frame without      *)
(* columns and df_sel.iloc[0] on an empty selection: this fails.            *)
(***************************************************************************)
\* flatten_cuaca_entry has run on the selected entry
Flattened == DOMAIN mapping # {} /\ pc # "table"

\* the time range has been applied (line 213)
RangeApplied ==
    \/ pc \in {"metrics", "windrose", "export", "done"}
    \/ pc = "aborted" /\ exception = "iloc"

NoValidRows ==
    \/ Flattened /\ Concat(selected_entry.cuaca) = <<>>
    \/ RangeApplied /\ df_sel = <<>>

C6_EmptyTableNoError ==
    NoValidRows => (exception = "none" /\ (pc = "done" => csv = <<>>))

(***************************************************************************)
(* C7.  The rows handed to the charts and the export are in ascending order *)
(* of their observation timestamp, none has a timestamp that could not be   *)
(* parsed, and sorting the table again gives the same order.  A row without *)
(* utc_datetime but with a local time passes the range filter: this fails.  *)
(***************************************************************************)
C7_SortedParsedRows ==
    pc \in {"metrics", "windrose", "export", "done"} =>
        /\ \A k \in 1..Len(df_sel) : df_sel[k].utc_datetime_dt # NaT
        /\ \A j, k \in 1..Len(df_sel) :
              j < k => df_sel[j].utc_datetime_dt <= df_sel[k].utc_datetime_dt
        /\ sort_values(df.rows) = df.rows

(***************************************************************************)
(* C8.  The number after /Length in object 2 equals the number of bytes     *)
(* between "stream\n" and "\nendstream".  The number is the count of        *)
(* characters, and the degree sign of the wind and temperature lines takes  *)
(* two bytes: this fails.                                                   *)
(***************************************************************************)
LENGTH_KEY == <<"/", "L", "e", "n", "g", "t", "h", " ">>
STREAM_KEY == <<"s", "t", "r", "e", "a", "m", "\n">>
ENDSTREAM_KEY == <<"\n", "e", "n", "d", "s", "t", "r", "e", "a", "m">>

RECURSIVE DigitsFrom(_, _)
\* the run of digits of b that starts at position i
DigitsFrom(b, i) ==
    IF i <= Len(b) /\ IsDigit(b[i]) THEN <<b[i]>> \o DigitsFrom(b, i + 1) ELSE <<>>

\* the number object 2 declares
DeclaredLength(b) ==
    Number(DigitsFrom(b, Min(Occurrences(LENGTH_KEY, b)) + Len(LENGTH_KEY)))

\* the bytes of the stream: after the first "stream\n", before the last "\nendstream"
StreamBytes(b) ==
    SubSeq(b, Min(Occurrences(STREAM_KEY, b)) + Len(STREAM_KEY),
              Max(Occurrences(ENDSTREAM_KEY, b)) - 1)

C8_DeclaredLength ==
    PdfGenerated => DeclaredLength(pdf) = Len(StreamBytes(pdf))

(***************************************************************************)
(* C9.  Every direction is assigned, after d mod 360, to exactly one of the *)
(* sixteen sectors, N covering 348.75 to 360 as well as 0 to 11.25, and no  *)
(* row with a direction and a speed is missing from the counts because of   *)
(* its direction.  The last bin edge is 348.75, so a direction above it     *)
(* gets no sector and its row is in no group: this fails.                   *)
(***************************************************************************)
C9_EveryDirectionCounted ==
    pc \in {"export", "done"} =>
        LET rows == SelectSeq(df_sel, LAMBDA r : r.wd_deg # NaN /\ r.ws_kt # NaN)
        IN  /\ Len(df_wr) = Len(rows)
            /\ \A k \in 1..Len(df_wr) :
                  /\ df_wr[k].dir_sector \in 1..16
                  /\ (df_wr[k].wd_deg % 36000 <= 1125 \/ df_wr[k].wd_deg % 36000 >= 34875)
                        => labels_dir[df_wr[k].dir_sector] = "N"
                  /\ df_wr[k].speed_class # NaN
                        => freq[df_wr[k].dir_sector, df_wr[k].speed_class] >= 1

(***************************************************************************)
(* C10.  generate_pdf escapes each line so that its string literal is well  *)
(* formed and loses nothing: in the operand every backslash, "(" and ")" of *)
(* the line is preceded by exactly one added backslash, a PDF reader's      *)
(* un-escaping of the operand gives back the line, and the stream holds     *)
(* exactly one Tj operator per line, in order.                              *)
(***************************************************************************)
\* the character a PDF reader takes for a backslash followed by c
Unescaped(c) ==
    CASE c = "n" -> "\n"
      [] c = "r" -> "\r"
      [] c = "t" -> "\t"
      [] OTHER -> c

NoString == [ok |-> FALSE, end |-> 0, text |-> <<>>]

RECURSIVE ReadString(_, _, _, _)
\* a PDF reader inside a literal string, at byte i with depth open parentheses:
\* the position of the parenthesis that closes the string, and its text
ReadString(b, i, depth, text) ==
    IF i > Len(b) THEN NoString
    ELSE IF b[i] = "\\"
         THEN IF i + 1 > Len(b) THEN NoString
              ELSE ReadString(b, i + 2, depth, Append(text, Unescaped(b[i + 1])))
    ELSE IF b[i] = "("
         THEN ReadString(b, i + 1, depth + 1, Append(text, "("))
    ELSE IF b[i] = ")"
         THEN IF depth = 0 THEN [ok |-> TRUE, end |-> i, text |-> text]
              ELSE ReadString(b, i + 1, depth - 1, Append(text, ")"))
    ELSE ReadString(b, i + 1, depth, Append(text, b[i]))

\* what follows the operand of each text line
SHOW_AND_MOVE == <<" ", "T", "j", "\n", "0", " ", "-", "1", "4", " ", "T", "d", "\n">>

RECURSIVE ReadOperators(_, _, _)
\* a PDF reader after the text state has been set: the operands of the
\* "(...) Tj" operators up to ET, each with its bytes as written and its text
ReadOperators(b, i, acc) ==
    IF OccursAt(PDF_ET, b, i) /\ i + Len(PDF_ET) - 1 = Len(b)
    THEN [ok |-> TRUE, strings |-> acc]
    ELSE IF i <= Len(b) /\ b[i] = "("
         THEN LET s == ReadString(b, i + 1, 0, <<>>)
              IN  IF s.ok /\ OccursAt(SHOW_AND_MOVE, b, s.end + 1)
                  THEN ReadOperators(b, s.end + 1 + Len(SHOW_AND_MOVE),
                                     Append(acc, [written |-> SubSeq(b, i + 1, s.end - 1),
                                                  text |-> s.text]))
                  ELSE [ok |-> FALSE, strings |-> acc]
    ELSE [ok |-> FALSE, strings |-> acc]

ReadStream(b) ==
    IF OccursAt(PDF_BT, b, 1) THEN ReadOperators(b, Len(PDF_BT) + 1, <<>>)
    ELSE [ok |-> FALSE, strings |-> <<>>]

\* the line with one backslash added before every backslash, "(" and ")"
EscapedOnce(l) ==
    Concat([k \in 1..Len(l) |-> IF l[k] \in {"\\", "(", ")"} THEN <<"\\", l[k]>> ELSE <<l[k]>>])

C10_EscapeRoundTrip ==
    PdfGenerated =>
        LET ops == ReadStream(StreamBytes(pdf))
        IN  /\ ops.ok
            /\ Len(ops.strings) = Len(qam_text)
            /\ \A k \in 1..Len(qam_text) :
                  /\ ops.strings[k].written = Encode(EscapedOnce(qam_text[k]))
                  /\ ops.strings[k].text = Encode(qam_text[k])

\* a document from a METAR text with a backslash and both parentheses
C10_Witness ==
    /\ PdfGenerated
    /\ \A c \in {"\\", "(", ")"} : \E k \in 1..Len(metar) : metar[k] = c
    /\ \E k \in 1..(Len(metar) - 1) : metar[k] = "\\" /\ metar[k + 1] = ")"

====
